---- MODULE Spec2Model ----
(***************************************************************************)
(* The name-suggestion-index (NSI) service of iD: src/config/envs.mjs.     *)
(*                                                                         *)
(* Representation.                                                         *)
(*  - A JavaScript string that the code takes apart character by character *)
(*    (a tag value, a name) is a sequence of one-character strings.        *)
(*  - An OSM key is the sequence of its ':'-separated segments, so that    *)
(*    the key regexes of the code are structural tests ("name:en" is       *)
(*    <<"name","en">>).  Keys are lower case; the /i flag of the key       *)
(*    regexes is therefore not exercised.                                  *)
(*  - A JavaScript object used as a string map (tags) is a sequence of     *)
(*    [k, v] records in insertion order, which is the order Object.keys    *)
(*    and forEach visit it; a JavaScript Set is a duplicate-free sequence  *)
(*    in insertion order.                                                  *)
(***************************************************************************)
EXTENDS Integers, Sequences, FiniteSets, TLC

VARIABLES
    nsiStatus,   \* _nsiStatus: "loading", "ok", "failed"
    nsi,         \* _nsi: the empty object {} until loadNsiData assigns it
    pipes,       \* one promise chain per init() call: the stage each waits on
    call         \* the last call of the public interface, with what it returned

vars == <<nsiStatus, nsi, pipes, call>>

-----------------------------------------------------------------------------
\* JavaScript values

Undefined == <<"#undefined">>

\* `!x` is false: x is neither undefined nor the empty string
Truthy(x) == x # Undefined /\ x # <<>>

Range(s) == {s[i] : i \in 1..Len(s)}

\* obj[k] !== undefined
HasKey(obj, key) == \E i \in 1..Len(obj) : obj[i].k = key

\* obj[k]
Get(obj, key) ==
    IF HasKey(obj, key)
    THEN obj[CHOOSE i \in 1..Len(obj) : obj[i].k = key].v
    ELSE Undefined

\* obj[k] = v : an existing key keeps its place, a new key goes last
Put(obj, key, val) ==
    IF HasKey(obj, key)
    THEN [i \in 1..Len(obj) |->
            IF obj[i].k = key THEN [k |-> key, v |-> val] ELSE obj[i]]
    ELSE Append(obj, [k |-> key, v |-> val])

\* delete obj[k]
Delete(obj, key) ==
    LET Keep(e) == e.k # key IN SelectSeq(obj, Keep)

\* Object.keys(obj)
ObjectKeys(obj) == [i \in 1..Len(obj) |-> obj[i].k]

\* Object.assign(target, src)
RECURSIVE ObjectAssign(_, _)
ObjectAssign(target, src) ==
    IF src = <<>> THEN target
    ELSE ObjectAssign(Put(target, Head(src).k, Head(src).v), Tail(src))

\* Set.prototype.has / add / size
SetHas(s, x) == \E i \in 1..Len(s) : s[i] = x
SetAdd(s, x) == IF SetHas(s, x) THEN s ELSE Append(s, x)

\* new Set([...a, ...b])
RECURSIVE SetUnion(_, _)
SetUnion(a, b) ==
    IF b = <<>> THEN a ELSE SetUnion(SetAdd(a, Head(b)), Tail(b))

-----------------------------------------------------------------------------
\* Characters

Whitespace == {" ", "\t"}          \* what \s and trim() take for blank
LineTerminators == {"\n"}          \* what '.' does not match
RegexSpecial == {"-", "/", "\\", "^", "$", "*", "+", "?", ".", "(", ")", "|", "[", "]", "{", "}"}

\* the case folding of the /i flag, on the letters the names use
Lower(c) ==
    CASE c = "A" -> "a"
      [] c = "B" -> "b"
      [] c = "R" -> "r"
      [] OTHER   -> c

\* /;/.test(s)
HasSemicolon(s) == \E i \in 1..Len(s) : s[i] = ";"

\* s.trim() is not the empty string
TrimNonEmpty(s) == \E i \in 1..Len(s) : s[i] \notin Whitespace \cup LineTerminators

\* escapeRegex(s): every special character gets a backslash before it.
\* The result is the sequence of regex atoms: [esc, c].
EscapeRegex(s) == [i \in 1..Len(s) |-> [esc |-> s[i] \in RegexSpecial, c |-> s[i]]]

\* one atom of a pattern built from escapeRegex against one character, /i
AtomMatches(atom, c) ==
    IF atom.esc \/ atom.c \notin RegexSpecial
    THEN Lower(atom.c) = Lower(c)
    ELSE atom.c = "." /\ c \notin LineTerminators

NoMatch == [matched |-> FALSE, captured |-> <<>>]

\* origName.match(new RegExp(`^${n}\\s(.+)$`, 'i')) for the atoms n
MatchBranch(atoms, origName) ==
    LET n == Len(atoms)
        m == Len(origName)
    IN  IF /\ m >= n + 2
           /\ \A i \in 1..n : AtomMatches(atoms[i], origName[i])
           /\ origName[n + 1] \in Whitespace \cup LineTerminators
           /\ \A j \in (n + 2)..m : origName[j] \notin LineTerminators
        THEN [matched |-> TRUE, captured |-> SubSeq(origName, n + 2, m)]
        ELSE NoMatch

-----------------------------------------------------------------------------
\* Keys

kName == <<"name">>
kNameEn == <<"name", "en">>
kBrand == <<"brand">>
kBrandWikidata == <<"brand", "wikidata">>
kBrandWikipedia == <<"brand", "wikipedia">>
kWikidata == <<"wikidata">>
kWikipedia == <<"wikipedia">>
kShop == <<"shop">>
kOffice == <<"office">>
kBuilding == <<"building">>
kBranch == <<"branch">>
kRoute == <<"route">>
kNetwork == <<"network">>
kManMade == <<"man_made">>
kCountry == <<"country">>

\* the segments \w+_name matches
UnderscoreName == {"alt_name", "official_name"}

\* notNames: a last segment that is no language code
NotNameSuffix ==
    {"colour", "color", "type", "forward", "backward", "left", "right",
     "etymology", "pronunciation", "wikipedia"}

notNames(key) == Len(key) >= 2 /\ key[Len(key)] \in NotNameSuffix

\* osmkey.match(/^(\w+:)?wikidata$/)
IsWikidataKey(key) ==
    \/ key = <<"wikidata">>
    \/ Len(key) = 2 /\ key[2] = "wikidata"

\* `${prefix}wikipedia`
WikipediaKey(key) ==
    IF Len(key) = 2 THEN <<key[1], "wikipedia">> ELSE <<"wikipedia">>

\* mainTag.replace('wikidata', 'wikipedia')
RECURSIVE ReplaceFirstWikidata(_)
ReplaceFirstWikidata(key) ==
    IF key = <<>> THEN <<>>
    ELSE IF Head(key) = "wikidata" THEN <<"wikipedia">> \o Tail(key)
    ELSE <<Head(key)>> \o ReplaceFirstWikidata(Tail(key))

\* `not:${mainTag}`
NotKey(mainTag) == <<"not">> \o mainTag

\* buildingPreset
buildingPreset ==
    {"building/commercial", "building/government", "building/hotel",
     "building/retail", "building/office", "building/supermarket",
     "building/yes"}

vYes == <<"y", "e", "s">>
vFlagpole == <<"f", "l", "a", "g", "p", "o", "l", "e">>

-----------------------------------------------------------------------------
\* The downloaded files (fileFetcher.get), as the tests of the service stub them

sA == <<"A">>
sAB == <<"A", " ", "B">>
sC == <<"C">>
sD == <<"D">>
sE == <<"E">>
vS == <<"s">>
vU == <<"u">>
vO == <<"o">>
vG == <<"g">>
q0 == <<"Q", "0">>
q1 == <<"Q", "1">>
q2 == <<"Q", "2">>
q4 == <<"Q", "4">>
wp1 == <<"e", "n", ":", "A">>
tBrands == <<"brands">>
tGhost == <<"ghost">>

Attr(key, val) == [k |-> key, v |-> val]

\* An nsi item as downloaded: {id, tags, preserveTags?}.  An optional array is
\* <<>> when the property is absent and <<array>> when it is there.
Item(id, tags, preserveTags) == [id |-> id, tags |-> tags, preserveTags |-> preserveTags]

item1 ==
    Item("i1", <<Attr(kBrand, sAB), Attr(kBrandWikidata, q1), Attr(kBrandWikipedia, wp1),
                 Attr(kName, sA), Attr(kShop, vS)>>, <<>>)
item2 ==
    Item("i2", <<Attr(kBrand, sD), Attr(kBrandWikidata, q2), Attr(kName, sD),
                 Attr(kShop, vS)>>, <<>>)
item3 ==
    Item("i3", <<Attr(kBrand, sE), Attr(kName, sE), Attr(kShop, vS)>>, <<>>)
item4 ==
    Item("i4", <<Attr(kBrand, sC), Attr(kBrandWikidata, q4), Attr(kName, sC),
                 Attr(kOffice, vO)>>, <<>>)
item5 ==
    Item("i5", <<Attr(kBrand, sE), Attr(kBrandWikidata, q4), Attr(kShop, vG)>>, <<>>)

\* a preserveTags entry: new RegExp(s, 'i') for s = "^<seg>" or "^<seg>$"
PreservePrefix(seg) == [anchored |-> FALSE, seg |-> seg]
PreserveExact(seg) == [anchored |-> TRUE, seg |-> seg]

\* one entry of nsi.min.json: "tree/key/value": {properties?, items}
\* the tkv string is the sequence of its '/'-separated pieces
Category(tkv, preserveTags, items) ==
    [tkv |-> tkv, properties |-> [preserveTags |-> preserveTags], items |-> items]

catShop == Category(<<tBrands, kShop, vS>>, <<>>, <<item1, item2, item3>>)
catOffice == Category(<<tBrands, kOffice, vO>>, <<<<PreservePrefix("name")>>>>, <<item4>>)
catGhostTree == Category(<<tGhost, kShop, vG>>, <<>>, <<item5>>)
catTwoParts == Category(<<tBrands, kShop>>, <<>>, <<item5>>)
catFourParts == Category(<<tBrands, kShop, vG, vU>>, <<>>, <<item5>>)

treesFile == <<Attr(tBrands, [mainTag |-> kBrandWikidata])>>
dissolvedFile == {"i2"}
replacementsFile == <<Attr(q0, <<Attr(kWikidata, q1), Attr(kWikipedia, wp1)>>)>>

Files(data) ==
    [data |-> data, dissolved |-> dissolvedFile,
     replacements |-> replacementsFile, trees |-> treesFile]

filesOk == Files(<<catShop, catOffice>>)
filesGhostTree == Files(<<catShop, catGhostTree, catOffice>>)
filesTwoParts == Files(<<catShop, catTwoParts, catOffice>>)
filesFourParts == Files(<<catShop, catFourParts>>)

Downloads == {filesOk, filesGhostTree, filesTwoParts, filesFourParts}

-----------------------------------------------------------------------------
\* loadNsiData

EmptyObject == [f \in {} |-> f]

\* _nsi.<field> is not undefined
HasField(N, f) == f \in DOMAIN N

\* parts[i] of tkv.split('/', 3)
Part(tkv, i) == IF i <= 3 /\ i <= Len(tkv) THEN tkv[i] ELSE Undefined

\* the object literal assigned to _nsi, with its three empty Maps
NsiAssigned(vals) ==
    [data |-> vals.data, dissolved |-> vals.dissolved,
     replacements |-> vals.replacements, trees |-> vals.trees,
     kvt |-> <<>>, qids |-> <<>>, ids |-> <<>>]

\* the body of items.forEach: cache the item and its wikidata/wikipedia values
RECURSIVE CacheItems(_, _, _, _)
CacheItems(N, items, tkv, mainTag) ==
    IF items = <<>> THEN N
    ELSE
        LET it   == Head(items)
            item == [id |-> it.id, tags |-> it.tags, preserveTags |-> it.preserveTags,
                     tkv |-> tkv, mainTag |-> mainTag]
            wd   == Get(it.tags, mainTag)
            wp   == Get(it.tags, ReplaceFirstWikidata(mainTag))
            ids1 == Put(N.ids, it.id, item)
            q1a  == IF Truthy(wd) THEN Put(N.qids, wd, wd) ELSE N.qids
            q2a  == IF Truthy(wp) /\ Truthy(wd) THEN Put(q1a, wp, wd) ELSE q1a
        IN  CacheItems([N EXCEPT !.ids = ids1, !.qids = q2a], Tail(items), tkv, mainTag)

\* the body of Object.keys(_nsi.data).forEach, entry by entry; a TypeError
\* (tree is undefined) ends the loop and leaves _nsi as built so far
RECURSIVE IndexCategories(_, _)
IndexCategories(N, entries) ==
    IF entries = <<>> THEN [nsi |-> N, threw |-> FALSE]
    ELSE
        LET category == Head(entries)
            tkv   == category.tkv
            t     == Part(tkv, 1)
            k     == Part(tkv, 2)
            v     == Part(tkv, 3)
            vmap  == IF HasKey(N.kvt, k) THEN Get(N.kvt, k) ELSE <<>>
            N1    == [N EXCEPT !.kvt = Put(N.kvt, k, Put(vmap, v, t))]
        IN  IF ~HasKey(N.trees, t)
            THEN [nsi |-> N1, threw |-> TRUE]
            ELSE IndexCategories(
                     CacheItems(N1, category.items, tkv, Get(N.trees, t).mainTag),
                     Tail(entries))

\* the .then callback of loadNsiData over the four downloaded files
loadNsiData(vals) == IndexCategories(NsiAssigned(vals), vals.data)

-----------------------------------------------------------------------------
\* gatherKVs

TypeError == "TypeError"

\* the pieces of s.split('/')
RECURSIVE SplitSlash(_, _)
SplitSlash(s, acc) ==
    IF s = <<>> THEN <<acc>>
    ELSE IF Head(s) = "/" THEN <<acc>> \o SplitSlash(Tail(s), <<>>)
    ELSE SplitSlash(Tail(s), Append(acc, Head(s)))

\* `${osmkey}/${osmvalue}`, as the '/'-separated pieces of the string
KvString(osmkey, osmvalue) == <<osmkey>> \o SplitSlash(osmvalue, <<>>)

\* the keys of tags whose value is not empty and that _nsi.kvt knows
RECURSIVE GatherKVLoop(_, _, _, _)
GatherKVLoop(N, tags, primary, alternate) ==
    IF tags = <<>> THEN [err |-> FALSE, primary |-> primary, alternate |-> alternate]
    ELSE
        LET osmkey   == Head(tags).k
            osmvalue == Head(tags).v
        IN  IF ~Truthy(osmvalue) THEN GatherKVLoop(N, Tail(tags), primary, alternate)
            ELSE IF ~HasField(N, "kvt")
            THEN [err |-> TRUE, primary |-> primary, alternate |-> alternate]
            ELSE IF ~HasKey(N.kvt, osmkey)
            THEN GatherKVLoop(N, Tail(tags), primary, alternate)
            ELSE IF osmvalue # vYes
            THEN GatherKVLoop(N, Tail(tags),
                              SetAdd(primary, KvString(osmkey, osmvalue)), alternate)
            ELSE GatherKVLoop(N, Tail(tags), primary,
                              SetAdd(alternate, KvString(osmkey, osmvalue)))

\* gatherKVs under a keyValueTree that holds every key of the feature
gatherKVsAnyKey(N, tags, presetId) ==
    LET all == IF HasField(N, "kvt")
               THEN [N EXCEPT !.kvt = [i \in 1..Len(tags) |-> Attr(tags[i].k, <<>>)]]
               ELSE N
        r   == GatherKVLoop(all, tags, <<>>, <<>>)
    IN  IF r.err THEN r
        ELSE IF presetId \in buildingPreset
        THEN [r EXCEPT !.alternate = SetAdd(r.alternate, KvString(kBuilding, vYes))]
        ELSE r

\* gatherKVs with the test `vmap.get(osmvalue)` for the values other than 'yes'
gatherKVsKnownValues(N, tags, presetId) ==
    LET known(i) == \/ ~HasField(N, "kvt") \/ ~HasKey(N.kvt, tags[i].k)
                    \/ tags[i].v = vYes
                    \/ HasKey(Get(N.kvt, tags[i].k), tags[i].v)
        kept == SelectSeq([i \in 1..Len(tags) |-> [a |-> tags[i], ok |-> known(i)]],
                          LAMBDA x : x.ok)
        r    == GatherKVLoop(N, [i \in 1..Len(kept) |-> kept[i].a], <<>>, <<>>)
    IN  IF r.err THEN r
        ELSE IF presetId \in buildingPreset
        THEN [r EXCEPT !.alternate = SetAdd(r.alternate, KvString(kBuilding, vYes))]
        ELSE r

\* presetId is the id of presetManager.matchTags(tags, 'area')
gatherKVs(N, tags, presetId) ==
    LET r == GatherKVLoop(N, tags, <<>>, <<>>)
    IN  IF r.err THEN r
        ELSE IF presetId \in buildingPreset
        THEN [r EXCEPT !.alternate = SetAdd(r.alternate, KvString(kBuilding, vYes))]
        ELSE r

-----------------------------------------------------------------------------
\* gatherNames

\* which of the three pattern tables the feature selects
Patterns(tags) ==
    IF Truthy(Get(tags, kRoute)) THEN "route"
    ELSE IF Get(tags, kManMade) = vFlagpole THEN "flagpole"
    ELSE "default"

\* patterns.primary.test(osmkey)
PrimaryPattern(ctx, key) ==
    CASE ctx = "route"    -> key = <<"network">>
      [] ctx = "flagpole" -> /\ Len(key) \in {2, 3}
                             /\ key[1] = "flag" /\ key[2] = "name"
      [] OTHER            -> Len(key) \in {1, 2} /\ key[1] = "name"

\* patterns.alternate.test(osmkey); the default pattern has no closing $,
\* so it matches every key that starts as one of its alternatives does
AlternatePattern(ctx, key) ==
    CASE ctx = "route" ->
            /\ Len(key) \in {1, 2}
            /\ \/ key[1] = "operator"
               \/ key[1] = "network" /\ Len(key) = 2
               \/ key[1] \in UnderscoreName
      [] ctx = "flagpole" ->
            Len(key) \in {1, 2} /\ key[1] \in {"flag", "subject"}
      [] OTHER ->
            Len(key) >= 1 /\ key[1] \in {"brand", "operator"} \cup UnderscoreName

isNamelike(ctx, key, which) ==
    /\ IF which = "primary" THEN PrimaryPattern(ctx, key) ELSE AlternatePattern(ctx, key)
    /\ ~notNames(key)

RECURSIVE GatherNamesLoop(_, _, _)
GatherNamesLoop(ctx, tags, acc) ==
    IF tags = <<>> THEN acc
    ELSE
        LET osmkey   == Head(tags).k
            osmvalue == Head(tags).v
        IN  IF ~Truthy(osmvalue) THEN GatherNamesLoop(ctx, Tail(tags), acc)
            ELSE IF isNamelike(ctx, osmkey, "primary")
            THEN GatherNamesLoop(ctx, Tail(tags),
                    IF HasSemicolon(osmvalue) THEN [acc EXCEPT !.foundSemi = TRUE]
                    ELSE [acc EXCEPT !.primary = SetAdd(acc.primary, osmvalue)])
            ELSE IF ~SetHas(acc.primary, osmvalue) /\ isNamelike(ctx, osmkey, "alternate")
            THEN GatherNamesLoop(ctx, Tail(tags),
                    IF HasSemicolon(osmvalue) THEN [acc EXCEPT !.foundSemi = TRUE]
                    ELSE [acc EXCEPT !.alternate = SetAdd(acc.alternate, osmvalue)])
            ELSE GatherNamesLoop(ctx, Tail(tags), acc)

\* the flagpole fallback to `country`
CountryFallback(tags, acc) ==
    IF /\ Get(tags, kManMade) = vFlagpole
       /\ acc.primary = <<>> /\ acc.alternate = <<>>
       /\ Truthy(Get(tags, kCountry))
    THEN IF HasSemicolon(Get(tags, kCountry))
         THEN [acc EXCEPT !.foundSemi = TRUE]
         ELSE [acc EXCEPT !.alternate = SetAdd(acc.alternate, Get(tags, kCountry))]
    ELSE acc

\* gatherNames without `if (foundSemi) return empty`
NamesResultKeepingNames(acc) == [primary |-> acc.primary, alternate |-> acc.alternate]

\* what gatherNames returns once the tags are scanned
NamesResult(acc) ==
    IF acc.foundSemi
    THEN [primary |-> <<>>, alternate |-> <<>>]
    ELSE [primary |-> acc.primary, alternate |-> acc.alternate]

gatherNames(tags) ==
    NamesResult(CountryFallback(tags,
        GatherNamesLoop(Patterns(tags), tags,
                        [primary |-> <<>>, alternate |-> <<>>, foundSemi |-> FALSE])))

-----------------------------------------------------------------------------
\* gatherTuples

\* kv.split('/', 2), then tuples.push({k, v, n}).  whichName and whichKV are
\* the loop variables under which the tuple was pushed; the code does not
\* store them.
Tuple(kv, n, whichName, whichKV) ==
    [k |-> kv[1], v |-> IF Len(kv) >= 2 THEN kv[2] ELSE Undefined, n |-> n,
     whichName |-> whichName, whichKV |-> whichKV]

KVTuples(kvs, n, whichName, whichKV) ==
    [i \in 1..Len(kvs) |-> Tuple(kvs[i], n, whichName, whichKV)]

\* tryNames[whichName].forEach(n => ['primary', 'alternate'].forEach(whichKV => ...))
RECURSIVE NameTuples(_, _, _)
NameTuples(tryKVs, names, whichName) ==
    IF names = <<>> THEN <<>>
    ELSE KVTuples(tryKVs.primary, Head(names), whichName, "primary")
         \o KVTuples(tryKVs.alternate, Head(names), whichName, "alternate")
         \o NameTuples(tryKVs, Tail(names), whichName)

\* the same loops nested the other way round: pairs outside, names inside
gatherTuplesByPair(tryKVs, tryNames) ==
    LET names == [i \in 1..(Len(tryNames.primary) + Len(tryNames.alternate)) |->
                    IF i <= Len(tryNames.primary)
                    THEN [n |-> tryNames.primary[i], which |-> "primary"]
                    ELSE [n |-> tryNames.alternate[i - Len(tryNames.primary)],
                          which |-> "alternate"]]
        one(kvs, whichKV, i) ==
            LET kv == kvs[((i - 1) \div Len(names)) + 1]
                nm == names[((i - 1) % Len(names)) + 1]
            IN  Tuple(kv, nm.n, nm.which, whichKV)
    IN  [i \in 1..(Len(tryKVs.primary) * Len(names)) |-> one(tryKVs.primary, "primary", i)]
        \o [i \in 1..(Len(tryKVs.alternate) * Len(names)) |->
                one(tryKVs.alternate, "alternate", i)]

gatherTuples(tryKVs, tryNames) ==
    NameTuples(tryKVs, tryNames.primary, "primary")
    \o NameTuples(tryKVs, tryNames.alternate, "alternate")

-----------------------------------------------------------------------------
\* The matcher (name-suggestion-index, not part of this repository)

Hit(itemID, match) == [itemID |-> itemID, match |-> match]

\* _nsi.matcher.match(k, v, n, loc): a matcher answers M.g to the one query
\* M.hot and M.f to every other query; null and [] are both <<>>
Match(M, k, v, n, loc) == IF <<k, v, n>> = M.hot THEN M.g ELSE M.f

-----------------------------------------------------------------------------
\* _upgradeTags

\* The two objects of a call: heap[1] is the caller's tags, heap[newRef] is
\* what the local newTags refers to.
\* let newTags = Object.assign({}, tags): a new object with the same entries;
\* the first is `let newTags = tags`, the same object under a second name
ShallowCopyAliased(tags) == [heap |-> <<tags, tags>>, newRef |-> 1]
ShallowCopy(tags) == [heap |-> <<tags, tags>>, newRef |-> 2]

TagsOf(st) == st.heap[1]
NewTagsOf(st) == st.heap[st.newRef]
SetNewTags(st, obj) == [st EXCEPT !.heap[st.newRef] = obj]

\* one field of a replacement applied: set the key, or delete it
ReplaceOrDelete(newTags, key, val) ==
    IF Truthy(val) THEN Put(newTags, key, val) ELSE Delete(newTags, key)

\* the body of the first forEach for one key of the copy
ReplaceOne(N, osmkey, r) ==
    LET newTags == NewTagsOf(r.st)
        wd      == Get(newTags, osmkey)
        found   == HasKey(N.replacements, wd)
        replace == IF found THEN Get(N.replacements, wd) ELSE <<>>
        hasWd   == found /\ HasKey(replace, kWikidata)
        hasWp   == found /\ HasKey(replace, kWikipedia)
        t1      == IF hasWd THEN ReplaceOrDelete(newTags, osmkey, Get(replace, kWikidata))
                   ELSE newTags
        t2      == IF hasWp
                   THEN ReplaceOrDelete(t1, WikipediaKey(osmkey), Get(replace, kWikipedia))
                   ELSE t1
    IN  [st |-> SetNewTags(r.st, t2), changed |-> r.changed \/ hasWd \/ hasWp, err |-> FALSE]

\* Object.keys(newTags).forEach: the trivial Wikipedia/Wikidata replacements
RECURSIVE ReplaceLoop(_, _, _)
ReplaceLoop(N, keys, r) ==
    IF keys = <<>> THEN r
    ELSE IF ~IsWikidataKey(Head(keys)) THEN ReplaceLoop(N, Tail(keys), r)
    ELSE IF ~HasField(N, "replacements") THEN [r EXCEPT !.err = TRUE]
    ELSE ReplaceLoop(N, Tail(keys), ReplaceOne(N, Head(keys), r))

NoItem == [id |-> "#none", tags |-> <<>>, preserveTags |-> <<>>, tkv |-> <<>>, mainTag |-> <<>>]
IsItem(item) == item.id # "#none"

\* the exceptions that make the scan skip a hit whose item is known
SkipHit(item, newTags) ==
    LET itemQID == Get(item.tags, item.mainTag)
        notQID  == Get(newTags, NotKey(item.mainTag))
    IN  \/ ~Truthy(itemQID) \/ itemQID = notQID
        \/ Truthy(Get(newTags, kOffice)) /\ ~Truthy(Get(item.tags, kOffice))

\* _nsi.dissolved[itemID]; the first is the scan without this test
IsDissolvedNever(N, itemID) == FALSE
IsDissolved(N, itemID) == itemID \in N.dissolved

\* item = null, when a hit is skipped
ItemAfterSkip(item) == NoItem

\* for (let j = 0; j < hits.length; j++): the value of `item` when the loop ends
RECURSIVE ScanHits(_, _, _, _, _)
ScanHits(N, hits, j, item, newTags) ==
    IF j > Len(hits) THEN item
    ELSE IF IsDissolved(N, hits[j].itemID) THEN ScanHits(N, hits, j + 1, item, newTags)
    ELSE
        LET found == IF HasKey(N.ids, hits[j].itemID)
                     THEN Get(N.ids, hits[j].itemID) ELSE NoItem
        IN  IF ~IsItem(found) THEN ScanHits(N, hits, j + 1, found, newTags)
            ELSE IF SkipHit(found, newTags)
            THEN ScanHits(N, hits, j + 1, ItemAfterSkip(found), newTags)
            ELSE found

Query(tuple, loc) == [k |-> tuple.k, v |-> tuple.v, n |-> tuple.n, loc |-> loc]

\* for (let i = 0; i < tuples.length; i++): the item the scan stops at, and the
\* queries it put to the matcher
RECURSIVE ScanTuples(_, _, _, _, _, _, _)
ScanTuples(N, tuples, i, newTags, M, loc, queries) ==
    IF i > Len(tuples) THEN [item |-> NoItem, queries |-> queries]
    ELSE
        LET tuple == tuples[i]
            hits  == Match(M, tuple.k, tuple.v, tuple.n, loc)
            qs    == Append(queries, Query(tuple, loc))
        IN  IF hits = <<>> \/ hits[1].match \notin {"primary", "alternate"}
            THEN ScanTuples(N, tuples, i + 1, newTags, M, loc, qs)
            ELSE
                LET item == ScanHits(N, hits, 1, NoItem, newTags)
                IN  IF ~IsItem(item)
                    THEN ScanTuples(N, tuples, i + 1, newTags, M, loc, qs)
                    ELSE [item |-> item, queries |-> qs]

\* new RegExp(s, 'i').test(osmkey) for a preserveTags entry, /^building$/i, /^takeaway$/i
RegexTestKey(pattern, osmkey) ==
    IF pattern.anchored THEN osmkey = <<pattern.seg>>
    ELSE Len(osmkey) >= 1 /\ osmkey[1] = pattern.seg

\* item.preserveTags || properties.preserveTags || [], then the two fixed regexes
PreserveRegexes(N, item) ==
    LET category == CHOOSE c \in Range(N.data) : c.tkv = item.tkv
        preserveTags ==
            IF item.preserveTags # <<>> THEN item.preserveTags[1]
            ELSE IF category.properties.preserveTags # <<>>
            THEN category.properties.preserveTags[1]
            ELSE <<>>
    IN  preserveTags \o <<PreserveExact("building"), PreserveExact("takeaway")>>

\* keepTags
KeepTags(regexes, newTags) ==
    LET Kept(e) == \E i \in 1..Len(regexes) : RegexTestKey(regexes[i], e.k)
    IN  SelectSeq(newTags, Kept)

\* _nsi.kvt.forEach((v, k) => delete newTags[k])
RECURSIVE DeletePrimaryKeys(_, _)
DeletePrimaryKeys(kvt, newTags) ==
    IF kvt = <<>> THEN newTags
    ELSE DeletePrimaryKeys(Tail(kvt), Delete(newTags, Head(kvt).k))

\* lines 419-445: newTags once the item's tags are merged into it
MergeItem(N, item, newTags, foundQID) ==
    LET keepTags == KeepTags(PreserveRegexes(N, item), newTags)
        t1 == DeletePrimaryKeys(N.kvt, newTags)
        t2 == IF Truthy(foundQID) THEN Delete(Delete(t1, kWikipedia), kWikidata) ELSE t1
    IN  ObjectAssign(ObjectAssign(t2, item.tags), keepTags)

\* Array.prototype.sort((a, b) => b.length - a.length): stable, longest first
RECURSIVE InsertByLength(_, _)
InsertByLength(sorted, x) ==
    IF sorted = <<>> THEN <<x>>
    ELSE IF Len(Head(sorted)) >= Len(x)
    THEN <<Head(sorted)>> \o InsertByLength(Tail(sorted), x)
    ELSE <<x>> \o sorted

RECURSIVE SortLongestFirst(_, _)
SortLongestFirst(s, sorted) ==
    IF s = <<>> THEN sorted
    ELSE SortLongestFirst(Tail(s), InsertByLength(sorted, Head(s)))

\* Array.from(newSet).sort(...); the first is the list without the sort
BranchCandidatesUnsorted(newSet) == newSet
BranchCandidates(newSet) == SortLongestFirst(newSet, <<>>)

\* if (branch): the captured remainder is kept only when trim() leaves something
BranchAccepted(captured) == TrimNonEmpty(captured)

\* for (let j = 0; j < candidates.length; j++)
RECURSIVE SplitBranch(_, _, _)
SplitBranch(candidates, origName, newTags) ==
    IF candidates = <<>> THEN newTags
    ELSE
        LET m == MatchBranch(EscapeRegex(Head(candidates)), origName)
        IN  IF m.matched /\ BranchAccepted(m.captured)
            THEN Put(newTags, kBranch, m.captured)
            ELSE SplitBranch(Tail(candidates), origName, newTags)

\* lines 447-475: the `branch` splitting rule
BranchRule(tags, newTags) ==
    LET origName == Get(tags, kName)
        newName  == Get(newTags, kName)
    IN  IF /\ Truthy(newName) /\ Truthy(origName) /\ newName # origName
           /\ ~Truthy(Get(newTags, kBranch))
        THEN
            LET newNames == gatherNames(newTags)
                newSet   == SetUnion(newNames.primary, newNames.alternate)
            IN  IF SetHas(newSet, origName) THEN newTags
                ELSE SplitBranch(BranchCandidates(newSet), origName, newTags)
        ELSE newTags

NoKVs == [err |-> FALSE, primary |-> <<>>, alternate |-> <<>>]
NoNames == [primary |-> <<>>, alternate |-> <<>>]

\* what a call of _upgradeTags leaves: what it returned (ret), the caller's
\* mapping after the call (tagsAfter), and what it computed on the way
Outcome(kind, retTags, st, changed, tryKVs, tryNames, tuples, queries, item, merged, replaced) ==
    [ret |-> [kind |-> kind, tags |-> retTags], tagsAfter |-> TagsOf(st),
     changed |-> changed, tryKVs |-> tryKVs, tryNames |-> tryNames,
     tuples |-> tuples, queries |-> queries, selected |-> item.id,
     merged |-> merged, replaced |-> replaced]

\* return changed ? newTags : null
Unchanged(st, changed, tryKVs, tryNames, tuples, queries) ==
    Outcome(IF changed THEN "tags" ELSE "null",
            IF changed THEN NewTagsOf(st) ELSE <<>>,
            st, changed, tryKVs, tryNames, tuples, queries, NoItem, <<>>, NewTagsOf(st))

Threw(st, changed, tryKVs) ==
    Outcome(TypeError, <<>>, st, changed, tryKVs, NoNames, <<>>, <<>>, NoItem, <<>>,
            NewTagsOf(st))

\* _nsi.qids.get(tags.wikidata) || _nsi.qids.get(tags.wikipedia)
FoundQID(N, tags, newTags) ==
    LET a == Get(N.qids, Get(tags, kWikidata))
    IN  IF Truthy(a) THEN a ELSE Get(N.qids, Get(tags, kWikipedia))

\* lines 381-480, from the tuples on
MatchAndMerge(N, st, changed, tryKVs, tryNames, foundQID, loc, M) ==
    LET tuples == gatherTuples(tryKVs, tryNames)
        scan   == ScanTuples(N, tuples, 1, NewTagsOf(st), M, loc, <<>>)
    IN  IF ~IsItem(scan.item)
        THEN Unchanged(st, changed, tryKVs, tryNames, tuples, scan.queries)
        ELSE
            LET st1 == SetNewTags(st, MergeItem(N, scan.item, NewTagsOf(st), foundQID))
                st2 == SetNewTags(st1, BranchRule(TagsOf(st1), NewTagsOf(st1)))
            IN  Outcome("tags", NewTagsOf(st2), st2, changed, tryKVs, tryNames, tuples,
                        scan.queries, scan.item, NewTagsOf(st1), NewTagsOf(st))

\* lines 371-379
NamesAndMatch(N, st, changed, tryKVs, loc, M) ==
    IF ~HasField(N, "qids") THEN Threw(st, changed, tryKVs)
    ELSE
        LET names    == gatherNames(TagsOf(st))
            foundQID == FoundQID(N, TagsOf(st), NewTagsOf(st))
            tryNames == IF Truthy(foundQID)
                        THEN [names EXCEPT !.primary = SetAdd(names.primary, foundQID)]
                        ELSE names
        IN  IF tryNames.primary = <<>> /\ tryNames.alternate = <<>>
            THEN Unchanged(st, changed, tryKVs, tryNames, <<>>, <<>>)
            ELSE MatchAndMerge(N, st, changed, tryKVs, tryNames, foundQID, loc, M)

_upgradeTags(N, tags, loc, presetId, M) ==
    LET st0 == ShallowCopy(tags)
        r   == ReplaceLoop(N, ObjectKeys(NewTagsOf(st0)),
                           [st |-> st0, changed |-> FALSE, err |-> FALSE])
    IN  IF r.err THEN Threw(r.st, r.changed, NoKVs)
        ELSE
            LET tryKVs == gatherKVs(N, TagsOf(r.st), presetId)
            IN  IF tryKVs.err THEN Threw(r.st, r.changed, tryKVs)
                ELSE IF tryKVs.primary = <<>> /\ tryKVs.alternate = <<>>
                THEN Unchanged(r.st, r.changed, tryKVs, NoNames, <<>>, <<>>)
                ELSE NamesAndMatch(N, r.st, r.changed, tryKVs, loc, M)

-----------------------------------------------------------------------------
\* _isGenericName

RECURSIVE GenericScan(_, _, _, _)
GenericScan(tuples, i, M, queries) ==
    IF i > Len(tuples) THEN [generic |-> FALSE, queries |-> queries]
    ELSE
        LET tuple == tuples[i]
            hits  == Match(M, tuple.k, tuple.v, tuple.n, "undefined")
            qs    == Append(queries, Query(tuple, "undefined"))
        IN  IF hits # <<>> /\ hits[1].match = "excludeGeneric"
            THEN [generic |-> TRUE, queries |-> qs]
            ELSE GenericScan(tuples, i + 1, M, qs)

GenericOutcome(kind, tags, tryKVs, tryNames, tuples, queries) ==
    [ret |-> [kind |-> kind, tags |-> <<>>], tagsAfter |-> tags,
     changed |-> FALSE, tryKVs |-> tryKVs, tryNames |-> tryNames,
     tuples |-> tuples, queries |-> queries, selected |-> NoItem.id,
     merged |-> <<>>, replaced |-> <<>>]

_isGenericName(N, tags, presetId, M) ==
    LET n == Get(tags, kName)
    IN  IF ~Truthy(n) THEN GenericOutcome("false", tags, NoKVs, NoNames, <<>>, <<>>)
        ELSE
            LET tryNames == [primary |-> <<n>>, alternate |-> <<>>]
                tryKVs   == gatherKVs(N, tags, presetId)
            IN  IF tryKVs.err
                THEN GenericOutcome(TypeError, tags, tryKVs, tryNames, <<>>, <<>>)
                ELSE IF tryKVs.primary = <<>> /\ tryKVs.alternate = <<>>
                THEN GenericOutcome("false", tags, tryKVs, tryNames, <<>>, <<>>)
                ELSE
                    LET tuples == gatherTuples(tryKVs, tryNames)
                        scan   == GenericScan(tuples, 1, M, <<>>)
                    IN  GenericOutcome(IF scan.generic THEN "true" ELSE "false",
                                       tags, tryKVs, tryNames, tuples, scan.queries)

-----------------------------------------------------------------------------
\* Bounds and inputs

MaxInits == 2      \* calls of init()
MaxTags == 3       \* attributes of a feature

sAR == <<"A", " ", "R">>
saBR == <<"a", " ", "b", " ", "R">>
sABlank == <<"A", " ", " ">>
sASemiR == <<"A", ";", "R">>
sN == <<"N">>
sNSemiM == <<"N", ";", "M">>
sF == <<"F">>
sFSemiG == <<"F", ";", "G">>
sX == <<"x">>
vR == <<"r">>

\* the attributes a feature may carry, in the order an editor wrote them
AttrUniverse ==
    << [k |-> kShop, vals |-> {vS, vU, vYes}],
       [k |-> kName, vals |-> {sAB, sAR, saBR, sABlank, sASemiR}],
       [k |-> kNameEn, vals |-> {sC}],
       [k |-> kBrand, vals |-> {sC, <<>>}],
       [k |-> kWikidata, vals |-> {q0, q1}],
       [k |-> kWikipedia, vals |-> {wp1}],
       [k |-> NotKey(kBrandWikidata), vals |-> {q1}],
       [k |-> kOffice, vals |-> {vO}],
       [k |-> kBranch, vals |-> {sX}],
       [k |-> kRoute, vals |-> {vR}],
       [k |-> kNetwork, vals |-> {sN, sNSemiM}],
       [k |-> kManMade, vals |-> {vFlagpole}],
       [k |-> kCountry, vals |-> {sF, sFSemiG}] >>

\* the tags objects with at most n attributes, taken from AttrUniverse[i..]
RECURSIVE TagsFrom(_, _)
TagsFrom(i, n) ==
    IF i > Len(AttrUniverse) \/ n = 0 THEN {<<>>}
    ELSE TagsFrom(i + 1, n)
         \cup {<<Attr(AttrUniverse[i].k, v)>> \o t :
                 v \in AttrUniverse[i].vals, t \in TagsFrom(i + 1, n - 1)}

Reverse(s) == [i \in 1..Len(s) |-> s[Len(s) + 1 - i]]

TagsInputs == LET T == TagsFrom(1, MaxTags) IN T \cup {Reverse(t) : t \in T}

\* what presetManager.matchTags(tags, 'area').id may be
PresetIds == {"building/yes", "shop/supermarket"}

\* what the matcher may answer to the query it is asked about
HitLists ==
    { <<>>,
      <<Hit("i1", "primary")>>,
      <<Hit("i2", "primary"), Hit("i1", "alternate")>>,
      <<Hit("i1", "excludeGeneric")>>,
      <<Hit("i9", "primary"), Hit("i3", "primary"), Hit("i4", "alternate")>>,
      <<Hit("i3", "alternate"), Hit("i2", "alternate")>> }

\* an answer that names a dissolved item only
DissolvedOnly == <<Hit("i2", "primary")>>

SilentMatcher == [hot |-> <<>>, g |-> <<>>, f |-> <<>>]

\* what the matcher may answer about a generic name
GenericMatchers ==
    { [hot |-> <<>>, g |-> <<>>, f |-> <<Hit("i1", "excludeGeneric")>>],
      [hot |-> <<>>, g |-> <<>>, f |-> <<Hit("i1", "primary"), Hit("i1", "excludeGeneric")>>] }

\* the matchers a call is checked against: the one that finds nothing, the
\* one that finds a dissolved item whatever it is asked, and those that
\* answer one of the queries in `tuples` from HitLists and the others with a
\* dissolved item
MatchersFor(tuples) ==
    {SilentMatcher, [hot |-> <<>>, g |-> <<>>, f |-> DissolvedOnly]}
    \cup {[hot |-> <<t.k, t.v, t.n>>, g |-> g, f |-> DissolvedOnly] :
            t \in Range(tuples), g \in HitLists}

NoOutcome == GenericOutcome("none", <<>>, NoKVs, NoNames, <<>>, <<>>)

Call(op, phase, status, tags, presetId, M, out) ==
    [op |-> op, phase |-> phase, status |-> status, tags |-> tags,
     presetId |-> presetId, M |-> M, out |-> out]

NoCall == Call("none", "idle", "loading", <<>>, "shop/supermarket", SilentMatcher, NoOutcome)

Here == "here"

-----------------------------------------------------------------------------
\* The service from init() on: the load pipeline and the public interface

Stages == <<"ensureLoaded", "loadNsiPresets", "delay", "mergeLocationSets", "loadNsiData">>

StageAfter(stage) ==
    CASE stage = "ensureLoaded"      -> "loadNsiPresets"
      [] stage = "loadNsiPresets"    -> "delay"
      [] stage = "delay"             -> "mergeLocationSets"
      [] stage = "mergeLocationSets" -> "loadNsiData"

Init ==
    /\ nsiStatus = "loading"
    /\ nsi = EmptyObject
    /\ pipes = <<>>
    /\ call = NoCall

\* init(): a new promise chain, waiting on presetManager.ensureLoaded()
init ==
    /\ Len(pipes) < MaxInits
    /\ pipes' = Append(pipes, "ensureLoaded")
    /\ call' = Call("init", "returned", nsiStatus, <<>>, "shop/supermarket", SilentMatcher, NoOutcome)
    /\ UNCHANGED <<nsiStatus, nsi>>

\* the promise a chain waits on is fulfilled: the next .then runs
StageResolves(p) ==
    /\ pipes[p] \in {"ensureLoaded", "loadNsiPresets", "delay", "mergeLocationSets"}
    /\ pipes' = [pipes EXCEPT ![p] = StageAfter(pipes[p])]
    /\ UNCHANGED <<nsiStatus, nsi, call>>

\* the promise a chain waits on is rejected: .catch(() => _nsiStatus = 'failed')
StageRejects(p) ==
    /\ pipes[p] \in Range(Stages)
    /\ pipes' = [pipes EXCEPT ![p] = "failed"]
    /\ nsiStatus' = "failed"
    /\ UNCHANGED <<nsi, call>>

\* the four files arrive: the .then callback of loadNsiData runs, then
\* .then(() => _nsiStatus = 'ok'), or .catch when the callback threw
DataArrives(p, vals) ==
    /\ pipes[p] = "loadNsiData"
    /\ LET r == loadNsiData(vals)
       IN  /\ nsi' = r.nsi
           /\ nsiStatus' = IF r.threw THEN "failed" ELSE "ok"
           /\ pipes' = [pipes EXCEPT ![p] = IF r.threw THEN "failed" ELSE "ok"]
    /\ UNCHANGED call

\* the four files arrive and the matcher throws while it builds its indices,
\* after _nsi was assigned
MatcherThrows(p, vals) ==
    /\ pipes[p] = "loadNsiData"
    /\ nsi' = NsiAssigned(vals)
    /\ nsiStatus' = "failed"
    /\ pipes' = [pipes EXCEPT ![p] = "failed"]
    /\ UNCHANGED call

\* reset(): does nothing
reset ==
    /\ call' = Call("reset", "returned", nsiStatus, <<>>, "shop/supermarket", SilentMatcher, NoOutcome)
    /\ UNCHANGED <<nsiStatus, nsi, pipes>>

\* status()
status ==
    /\ call' = Call("status", "returned", nsiStatus, <<>>, "shop/supermarket", SilentMatcher,
                    GenericOutcome(nsiStatus, <<>>, NoKVs, NoNames, <<>>, <<>>))
    /\ UNCHANGED <<nsiStatus, nsi, pipes>>

\* the features the callers of the running service ask about
sampleTags ==
    { <<>>,
      <<Attr(kBrand, <<>>)>>,
      <<Attr(kShop, vS), Attr(kName, sAR)>>,
      <<Attr(kWikidata, q0)>>,
      <<Attr(kBuilding, vYes), Attr(kName, sA)>> }

sampleMatchers ==
    { [hot |-> <<>>, g |-> <<>>, f |-> <<Hit("i1", "primary")>>],
      [hot |-> <<>>, g |-> <<>>, f |-> <<Hit("i1", "excludeGeneric")>>] }

\* upgradeTags(tags, loc)
upgradeTags(tags, presetId, M) ==
    /\ call' = Call("upgradeTags", "returned", nsiStatus, tags, presetId, M,
                    _upgradeTags(nsi, tags, Here, presetId, M))
    /\ UNCHANGED <<nsiStatus, nsi, pipes>>

\* isGenericName(tags)
isGenericName(tags, presetId, M) ==
    /\ call' = Call("isGenericName", "returned", nsiStatus, tags, presetId, M,
                    _isGenericName(nsi, tags, presetId, M))
    /\ UNCHANGED <<nsiStatus, nsi, pipes>>

Next ==
    \/ init
    \/ \E p \in 1..Len(pipes) : StageResolves(p)
    \/ \E p \in 1..Len(pipes) : StageRejects(p)
    \/ \E p \in 1..Len(pipes), vals \in Downloads : DataArrives(p, vals)
    \/ \E p \in 1..Len(pipes), vals \in Downloads : MatcherThrows(p, vals)
    \/ reset
    \/ status
    \/ \E tags \in sampleTags, presetId \in PresetIds, M \in sampleMatchers :
          upgradeTags(tags, presetId, M)
    \/ \E tags \in sampleTags, presetId \in PresetIds, M \in sampleMatchers :
          isGenericName(tags, presetId, M)

Spec == Init /\ [][Next]_vars

-----------------------------------------------------------------------------
\* One call against the loaded indices, for every feature within the bounds

LoadedNsi == loadNsiData(filesOk).nsi

\* the matchers a call is checked against: for upgradeTags, those that
\* single out one of the tuples the call will try
MatchersOf(op, tags, presetId) ==
    IF op = "upgradeTags"
    THEN MatchersFor(_upgradeTags(LoadedNsi, tags, Here, presetId, SilentMatcher).tuples)
    ELSE GenericMatchers

InitCall ==
    /\ nsiStatus = "ok"
    /\ nsi = LoadedNsi
    /\ pipes = <<"ok">>
    /\ \E op \in {"upgradeTags", "isGenericName"}, tags \in TagsInputs, presetId \in PresetIds :
          \E M \in MatchersOf(op, tags, presetId) :
             call = Call(op, "called", "ok", tags, presetId, M, NoOutcome)

runUpgradeTags ==
    /\ call.phase = "called" /\ call.op = "upgradeTags"
    /\ call' = [call EXCEPT !.phase = "returned",
                            !.out = _upgradeTags(nsi, call.tags, Here, call.presetId, call.M)]
    /\ UNCHANGED <<nsiStatus, nsi, pipes>>

runIsGenericName ==
    /\ call.phase = "called" /\ call.op = "isGenericName"
    /\ call' = [call EXCEPT !.phase = "returned",
                            !.out = _isGenericName(nsi, call.tags, call.presetId, call.M)]
    /\ UNCHANGED <<nsiStatus, nsi, pipes>>

NextCall == runUpgradeTags \/ runIsGenericName

SpecCall == InitCall /\ [][NextCall]_vars

-----------------------------------------------------------------------------
\* What the claims speak of, stated without the operators above

UpgradeReturned == call.op = "upgradeTags" /\ call.phase = "returned"

Out == call.out

\* a key the patterns of the feature's context take for a name
NameLikeKey(tags, key) ==
    \/ isNamelike(Patterns(tags), key, "primary")
    \/ isNamelike(Patterns(tags), key, "alternate")

\* the values name gathering looks at: those of the name-like keys, and for a
\* flagpole without any of them the value of `country`
NameLikeValues(tags) ==
    LET byKey == {tags[i].v : i \in {j \in 1..Len(tags) :
                                 Truthy(tags[j].v) /\ NameLikeKey(tags, tags[j].k)}}
    IN  IF /\ byKey = {} /\ Get(tags, kManMade) = vFlagpole /\ Truthy(Get(tags, kCountry))
        THEN {Get(tags, kCountry)}
        ELSE byKey

HasSemicolonName(tags) == \E n \in NameLikeValues(tags) : HasSemicolon(n)

\* the feature's wikidata or wikipedia value is a key of crossRefToCanonical
ResolvesQID(tags) ==
    \/ HasKey(nsi.qids, Get(tags, kWikidata))
    \/ HasKey(nsi.qids, Get(tags, kWikipedia))

\* a key the replacements of step 1 may write: wikidata, wikipedia, with or
\* without one prefix
CrossRefKey(key) == Len(key) \in {1, 2} /\ key[Len(key)] \in {"wikidata", "wikipedia"}

\* step 1 changes something: a *:wikidata value the replacement table knows
ReplacementApplies(tags) ==
    \E i \in 1..Len(tags) :
        /\ IsWikidataKey(tags[i].k)
        /\ HasKey(nsi.replacements, tags[i].v)
        /\ Get(nsi.replacements, tags[i].v) # <<>>

\* b differs from a in cross-reference attributes only
OnlyCrossRefsDiffer(a, b) ==
    \A key \in Range(ObjectKeys(a)) \cup Range(ObjectKeys(b)) :
        CrossRefKey(key) \/ (HasKey(a, key) /\ HasKey(b, key) /\ Get(a, key) = Get(b, key))

\* no match was made: null, or the copy changed by step 1 only
ReturnsWithoutMatch ==
    /\ Out.queries = <<>>
    /\ Out.selected = NoItem.id
    /\ IF ReplacementApplies(call.tags)
       THEN Out.ret.kind = "tags" /\ OnlyCrossRefsDiffer(call.tags, Out.ret.tags)
       ELSE Out.ret.kind = "null"

\* a hit the selection rules of step 4b accept
Qualifies(hit, newTags) ==
    /\ hit.itemID \notin nsi.dissolved
    /\ HasKey(nsi.ids, hit.itemID)
    /\ LET item == Get(nsi.ids, hit.itemID)
           qid  == Get(item.tags, item.mainTag)
       IN  /\ Truthy(qid)
           /\ qid # Get(newTags, NotKey(item.mainTag))
           /\ ~(Truthy(Get(newTags, kOffice)) /\ ~Truthy(Get(item.tags, kOffice)))

\* an answer of the matcher from which an item can be taken
Usable(hits, newTags) ==
    /\ hits # <<>>
    /\ hits[1].match \in {"primary", "alternate"}
    /\ \E j \in 1..Len(hits) : Qualifies(hits[j], newTags)

AnswerTo(tuple) == Match(call.M, tuple.k, tuple.v, tuple.n, Here)

FirstQualifying(hits, newTags) ==
    hits[CHOOSE j \in 1..Len(hits) :
            /\ Qualifies(hits[j], newTags)
            /\ \A h \in 1..(j - 1) : ~Qualifies(hits[h], newTags)].itemID

-----------------------------------------------------------------------------
\* C1: upgradeTags leaves the caller's tags as they were, whatever it returns:
\* null, the copy with the replacements of step 1, or the merged tags.
C1_InputNotMutated == UpgradeReturned => Out.tagsAfter = call.tags

\* a call that replaced a wikidata value, merged an item and split a branch
C1_Witness ==
    /\ UpgradeReturned
    /\ Out.changed
    /\ Out.selected = "i1"
    /\ ~HasKey(call.tags, kBranch) /\ HasKey(Out.ret.tags, kBranch)
    /\ HasKey(call.tags, kShop) /\ Get(Out.ret.tags, kName) # Get(call.tags, kName)

\* C2: a call of upgradeTags or isGenericName made while the status is
\* 'loading' or 'failed' raises no error and answers as over empty indices:
\* null, false.
C2_DegradedNotError ==
    (/\ call.phase = "returned"
     /\ call.op \in {"upgradeTags", "isGenericName"}
     /\ call.status \in {"loading", "failed"})
    => /\ Out.ret.kind # TypeError
       /\ call.op = "upgradeTags" => Out.ret.kind = "null"
       /\ call.op = "isGenericName" => Out.ret.kind = "false"

\* C3: once the status is 'failed' it is 'failed' in every later state,
\* whatever is invoked.
C3_FailedIsTerminal == [][nsiStatus = "failed" => nsiStatus' = "failed"]_vars

\* C4 (as claimed): every tuple of a primary name and a primary key/value
\* pair comes before every tuple with an alternate name or an alternate pair.
C4_PrimaryPairsFirst ==
    UpgradeReturned =>
        \A i, j \in 1..Len(Out.tuples) :
            (/\ Out.tuples[i].whichName = "primary" /\ Out.tuples[i].whichKV = "primary"
             /\ ~(Out.tuples[j].whichName = "primary" /\ Out.tuples[j].whichKV = "primary"))
            => i < j

\* C4 (amended): the tuples are the cross product of the gathered names and
\* pairs; every tuple of a primary name comes before every tuple of an
\* alternate name; among the tuples of one name those of a primary pair come
\* before those of an alternate pair; the matcher is queried in that order.
C4_NestedOrder ==
    UpgradeReturned =>
        LET t == Out.tuples
        IN  /\ \A i, j \in 1..Len(t) :
                  (i < j /\ t[i].whichName = "alternate") => t[j].whichName = "alternate"
            /\ \A i, j \in 1..Len(t) :
                  (/\ i < j /\ t[i].n = t[j].n /\ t[i].whichName = t[j].whichName
                   /\ t[i].whichKV = "alternate") => t[j].whichKV = "alternate"
            /\ \A which \in {"primary", "alternate"} :
                  \A n \in Range(Out.tryNames[which]),
                     kv \in Range(Out.tryKVs.primary) \cup Range(Out.tryKVs.alternate) :
                     \E i \in 1..Len(t) :
                        /\ t[i].n = n /\ t[i].whichName = which
                        /\ t[i].k = kv[1] /\ t[i].v = kv[2]
            /\ Len(t) = (Len(Out.tryNames.primary) + Len(Out.tryNames.alternate))
                        * (Len(Out.tryKVs.primary) + Len(Out.tryKVs.alternate))
            /\ Len(Out.queries) <= Len(t)
            /\ \A i \in 1..Len(Out.queries) :
                  /\ Out.queries[i].k = t[i].k /\ Out.queries[i].v = t[i].v
                  /\ Out.queries[i].n = t[i].n

\* two primary names and an alternate pair: the alternate pair of the first
\* name is tried before the primary pair of the second, and all were queried
C4_Witness ==
    /\ UpgradeReturned
    /\ Len(Out.queries) >= 4
    /\ \E i, j \in 1..Len(Out.tuples) :
          /\ i < j
          /\ Out.tuples[i].whichName = "primary" /\ Out.tuples[i].whichKV = "alternate"
          /\ Out.tuples[j].whichName = "primary" /\ Out.tuples[j].whichKV = "primary"

\* C5: the item upgradeTags merges is never a dissolved one: it is the first
\* hit the rules accept, of the first tuple whose answer has such a hit, and
\* the scan queried every tuple up to that one and none after it.
C5_NeverDissolved ==
    UpgradeReturned =>
        LET t == Out.tuples
            usable == {i \in 1..Len(t) : Usable(AnswerTo(t[i]), Out.replaced)}
        IN  IF usable = {}
            THEN Out.selected = NoItem.id /\ Len(Out.queries) = Len(t)
            ELSE LET i == CHOOSE x \in usable : \A y \in usable : x <= y
                 IN  /\ Out.selected = FirstQualifying(AnswerTo(t[i]), Out.replaced)
                     /\ Out.selected \notin nsi.dissolved
                     /\ Len(Out.queries) = i

\* the first tuple finds a dissolved item only, the second a dissolved item
\* and then the item that is merged
C5_Witness ==
    /\ UpgradeReturned
    /\ Len(Out.queries) = 2
    /\ AnswerTo(Out.tuples[1]) = DissolvedOnly
    /\ AnswerTo(Out.tuples[2]) = <<Hit("i2", "primary"), Hit("i1", "alternate")>>
    /\ Out.selected = "i1"

NoKeyInKvt(tags) == \A i \in 1..Len(tags) : ~HasKey(nsi.kvt, tags[i].k)

\* C7 (as claimed): a feature none of whose keys is in keyValueTree is never
\* matched, whatever the preset classification.
C7_NoKvtKeyNoMatch ==
    (UpgradeReturned /\ NoKeyInKvt(call.tags)) => ReturnsWithoutMatch

\* C7 (amended): a feature none of whose keys is in keyValueTree, and whose
\* preset is none of buildingPreset, is never matched.
C7_NoKvtKeyNoMatchUnlessBuilding ==
    (UpgradeReturned /\ NoKeyInKvt(call.tags) /\ call.presetId \notin buildingPreset)
    => ReturnsWithoutMatch

\* a named feature without a primary key, with a replaced wikidata value
C7_Witness ==
    /\ UpgradeReturned
    /\ NoKeyInKvt(call.tags) /\ call.presetId \notin buildingPreset
    /\ Truthy(Get(call.tags, kName))
    /\ Out.ret.kind = "tags" /\ Get(Out.ret.tags, kWikidata) = q1

\* the canonical value the feature's wikidata or wikipedia attribute maps to,
\* through the replacement table or through crossRefToCanonical
CanonicalOf(tags) ==
    LET wd  == Get(tags, kWikidata)
        rep == IF HasKey(nsi.replacements, wd) /\ HasKey(Get(nsi.replacements, wd), kWikidata)
               THEN Get(Get(nsi.replacements, wd), kWikidata) ELSE Undefined
    IN  IF HasKey(nsi.qids, wd) THEN Get(nsi.qids, wd)
        ELSE IF HasKey(nsi.qids, rep) THEN Get(nsi.qids, rep)
        ELSE Get(nsi.qids, Get(tags, kWikipedia))

\* C8: a feature with a key/value candidate, no name-like attribute and a
\* wikidata or wikipedia value that maps to a canonical value gets that value
\* as a primary name, the matcher is asked about it, and a usable answer
\* gives the merged tags without the raw wikidata and wikipedia attributes.
C8_CrossRefUpgrades ==
    (/\ UpgradeReturned
     /\ Out.tryKVs.primary # <<>> \/ Out.tryKVs.alternate # <<>>
     /\ NameLikeValues(call.tags) = {}
     /\ Truthy(CanonicalOf(call.tags)))
    => LET q   == CanonicalOf(call.tags)
           kvs == Range(Out.tryKVs.primary) \cup Range(Out.tryKVs.alternate)
       IN  /\ SetHas(Out.tryNames.primary, q)
           /\ \E i \in 1..Len(Out.queries) : Out.queries[i].n = q
           /\ (\E kv \in kvs :
                  Usable(Match(call.M, kv[1], kv[2], q, Here), Out.replaced))
              => /\ Out.selected # NoItem.id
                 /\ Out.ret.kind = "tags"
                 /\ ~HasKey(Out.ret.tags, kWikidata)
                 /\ ~HasKey(Out.ret.tags, kWikipedia)

\* what stands in origName after V and one blank
Remainder(origName, n) == SubSeq(origName, n + 2, Len(origName))

\* origName is V, one blank, and a remainder on the same line
HasForm(origName, V) ==
    /\ Len(origName) >= Len(V) + 2
    /\ \A i \in 1..Len(V) : Lower(V[i]) = Lower(origName[i])
    /\ origName[Len(V) + 1] \in Whitespace \cup LineTerminators
    /\ \A i \in (Len(V) + 2)..Len(origName) : origName[i] \notin LineTerminators

NotBlank(s) == \E i \in 1..Len(s) : s[i] \notin Whitespace \cup LineTerminators

Longest(Vs) == CHOOSE V \in Vs : \A W \in Vs : Len(W) <= Len(V)

\* an item was selected, its name differs from the feature's, and the merged
\* tags hold no branch
BranchRuleApplies ==
    /\ UpgradeReturned
    /\ Out.selected # NoItem.id
    /\ Truthy(Get(call.tags, kName)) /\ Truthy(Get(Out.merged, kName))
    /\ Get(Out.merged, kName) # Get(call.tags, kName)
    /\ ~Truthy(Get(Out.merged, kBranch))

\* C9 (as claimed): when the original name is V, a blank and a non-empty
\* remainder for a merged name-like value V, branch is the remainder after
\* the longest such V; else no branch is added or changed.
C9_BranchSplit ==
    LET origName == Get(call.tags, kName)
        Vs == {V \in NameLikeValues(Out.merged) : HasForm(origName, V)}
    IN  (BranchRuleApplies /\ origName \notin NameLikeValues(Out.merged))
        => IF Vs # {}
           THEN Get(Out.ret.tags, kBranch) = Remainder(origName, Len(Longest(Vs)))
           ELSE Get(Out.ret.tags, kBranch) = Get(call.tags, kBranch)

\* C9 (amended): the remainder must hold a character that is not blank, and
\* no merged name-like value may contain ';'.
C9_BranchSplitNotBlank ==
    LET origName == Get(call.tags, kName)
        Vs == {V \in NameLikeValues(Out.merged) :
                  HasForm(origName, V) /\ NotBlank(Remainder(origName, Len(V)))}
    IN  /\ (BranchRuleApplies /\ origName \notin NameLikeValues(Out.merged))
           => IF Vs # {} /\ ~HasSemicolonName(Out.merged)
              THEN Get(Out.ret.tags, kBranch) = Remainder(origName, Len(Longest(Vs)))
              ELSE Get(Out.ret.tags, kBranch) = Get(Out.merged, kBranch)
        /\ (UpgradeReturned /\ Out.selected # NoItem.id /\ Truthy(Get(Out.merged, kBranch)))
           => Get(Out.ret.tags, kBranch) = Get(Out.merged, kBranch)

\* "a B R" against the merged names "A" and "A B": branch is "R"
C9_Witness ==
    /\ BranchRuleApplies
    /\ Get(call.tags, kName) = saBR
    /\ {sA, sAB} \subseteq NameLikeValues(Out.merged)
    /\ Get(Out.ret.tags, kBranch) = <<"R">>

\* C10 (as claimed): every gathered pair but the forced building/yes is a
\* (key, value) pair of keyValueTree.
C10_OnlyRegisteredPairs ==
    call.phase = "returned" /\ call.op \in {"upgradeTags", "isGenericName"} =>
        \A kv \in Range(Out.tryKVs.primary) \cup Range(Out.tryKVs.alternate) :
            \/ kv = <<kBuilding, vYes>> /\ call.presetId \in buildingPreset
            \/ HasKey(nsi.kvt, kv[1]) /\ HasKey(Get(nsi.kvt, kv[1]), kv[2])

KeyedPairs(tags) ==
    {<<tags[i].k, tags[i].v>> :
        i \in {j \in 1..Len(tags) : Truthy(tags[j].v) /\ HasKey(nsi.kvt, tags[j].k)}}

\* C10 (amended): the gathered pairs are those of the feature's attributes
\* with a non-empty value whose key is a key of keyValueTree, whatever the
\* value: primary when the value is not "yes", alternate when it is; and
\* building/yes is an alternate when the preset is one of buildingPreset.
C10_PairsByKey ==
    (/\ call.phase = "returned" /\ call.op \in {"upgradeTags", "isGenericName"}
     /\ call.op = "isGenericName" => Truthy(Get(call.tags, kName)))
    => /\ Range(Out.tryKVs.primary) = {kv \in KeyedPairs(call.tags) : kv[2] # vYes}
       /\ Range(Out.tryKVs.alternate) =
             {kv \in KeyedPairs(call.tags) : kv[2] = vYes}
             \cup (IF call.presetId \in buildingPreset THEN {<<kBuilding, vYes>>} ELSE {})

\* shop=u is gathered though keyValueTree has no value u under shop
C10_Witness ==
    /\ UpgradeReturned
    /\ SetHas(Out.tryKVs.primary, <<kShop, vU>>)
    /\ ~HasKey(Get(nsi.kvt, kShop), vU)
    /\ Out.queries # <<>>

\* the tkv key is tree/key/value, and the tree metadata defines the tree
WellFormedEntry(category, trees) ==
    Len(category.tkv) = 3 /\ HasKey(trees, category.tkv[1])

\* the entry and its items are in the indices
Registered(category, N) ==
    /\ HasKey(N.kvt, category.tkv[2])
    /\ HasKey(Get(N.kvt, category.tkv[2]), category.tkv[3])
    /\ Get(Get(N.kvt, category.tkv[2]), category.tkv[3]) = category.tkv[1]
    /\ \A i \in 1..Len(category.items) :
          /\ HasKey(N.ids, category.items[i].id)
          /\ Get(N.ids, category.items[i].id).tkv = category.tkv

\* C11: the index build fails, and the status never becomes 'ok', for a
\* dataset with a tkv key that is not exactly tree/key/value or whose tree the
\* tree metadata does not define; of a dataset that was built, every entry
\* and every item is registered.
C11_MalformedDatasetFails ==
    nsiStatus = "ok" =>
        \A i \in 1..Len(nsi.data) :
            /\ WellFormedEntry(nsi.data[i], nsi.trees)
            /\ Registered(nsi.data[i], nsi)

====
